---- MODULE Spec2Model ----
(***************************************************************************)
(* A model of normalize_tekton.py: the duration normaliser, the recursive  *)
(* field deletion, the tree walk with its rewrite rules, and main's        *)
(* per-file loop with the in-place write through a temporary file.         *)
(*                                                                         *)
(* Strings are TLA+ strings, read character by character with SubSeq.      *)
(* A parsed YAML/JSON value is a record with the same five fields whatever *)
(* its type:  t  is the type tag ("str", "int", "float", "bool", "null",   *)
(* "map", "list"),  s  the text of a string (or the literal of a float or  *)
(* bool),  n  the value of an integer,  m  the mapping (a function from    *)
(* key strings to values) and  l  the sequence of items.                   *)
(***************************************************************************)
EXTENDS Integers, Sequences, FiniteSets, TLC

VARIABLES
    pc,        \* position of the run being modelled
    s,         \* normalize_duration: the argument
    r1,        \* normalize_duration(s)
    r2,        \* normalize_duration(r1)
    obj,       \* delete_recursive: the object (mutated in place)
    path,      \* delete_recursive: the path argument
    obj0,      \* delete_recursive: the object as it was passed
    removed,   \* delete_recursive: the returned count
    doc,       \* walk: the parsed document
    out,       \* walk(doc)
    out2,      \* walk(out)
    args,      \* main: args.paths
    inplace,   \* main: args.inplace
    fs,        \* main: the file system, name -> content
    fs0,       \* main: the file system when main started
    idx,       \* main: index of the path the for loop is at
    text,      \* main: text = path.read_text()
    outText,   \* main: out = process_stream(text)
    stdout,    \* main: what was written to sys.stdout
    stderr,    \* main: what was written to sys.stderr
    status     \* main: the exit status of the process

vars == <<pc, s, r1, r2, obj, path, obj0, removed, doc, out, out2, args,
          inplace, fs, fs0, idx, text, outText, stdout, stderr, status>>

durVars  == <<s, r1, r2>>
delVars  == <<obj, path, obj0, removed>>
walkVars == <<doc, out, out2>>
mainVars == <<args, inplace, fs, fs0, idx, text, outText, stdout, stderr, status>>

(***************************************************************************)
(* Bounds of the model.                                                    *)
(***************************************************************************)
MaxLen == 6      \* longest duration string drawn
MaxDelNodes == 4 \* most nodes (mappings, sequences, scalars) of an object delete_recursive is given
MaxNodes == 4    \* most nodes of a document walk is given
MaxArgs == 3     \* most file paths on the command line

(***************************************************************************)
(* Characters and integers.                                                *)
(***************************************************************************)
\* st[i-1:i] in Python's terms: the character at position i (from 1), or ""
\* beyond the ends of the string.
CharAt(st, i) == IF i >= 1 /\ i <= Len(st) THEN SubSeq(st, i, i) ELSE ""

DigitChars == {"0", "1", "2", "3", "4", "5", "6", "7", "8", "9"}

IsDigit(c) == c \in DigitChars

DigitVal(c) ==
    CASE c = "0" -> 0 [] c = "1" -> 1 [] c = "2" -> 2 [] c = "3" -> 3
      [] c = "4" -> 4 [] c = "5" -> 5 [] c = "6" -> 6 [] c = "7" -> 7
      [] c = "8" -> 8 [] c = "9" -> 9

DigitChar(d) ==
    CASE d = 0 -> "0" [] d = 1 -> "1" [] d = 2 -> "2" [] d = 3 -> "3"
      [] d = 4 -> "4" [] d = 5 -> "5" [] d = 6 -> "6" [] d = 7 -> "7"
      [] d = 8 -> "8" [] d = 9 -> "9"

\* int(d) of a non-empty string of digits: leading zeros carry no value.
RECURSIVE int(_)
int(d) ==
    IF Len(d) = 0 THEN 0
    ELSE 10 * int(SubSeq(d, 1, Len(d) - 1)) + DigitVal(CharAt(d, Len(d)))

\* f"{n}" of a non-negative integer: decimal, no leading zeros.
RECURSIVE IntToStr(_)
IntToStr(n) ==
    IF n < 10 THEN DigitChar(n)
    ELSE IntToStr(n \div 10) \o DigitChar(n % 10)

(***************************************************************************)
(* normalize_duration.                                                     *)
(***************************************************************************)
\* The end of the longest run of digits of st that starts at i (i - 1 when
\* there is none): \d+ is greedy.
RECURSIVE DigitsEnd(_, _)
DigitsEnd(st, i) ==
    IF i <= Len(st) /\ IsDigit(CharAt(st, i)) THEN DigitsEnd(st, i + 1)
    ELSE i - 1

\* One optional group (?:(\d+)u)? tried at position i: the captured digits
\* ("" when the group does not take part, Python's None) and the position
\* after it. Giving digits back cannot help \d+ reach the unit letter, so
\* the group takes part exactly when the whole run of digits is followed by u.
Group(st, i, u) ==
    LET e == DigitsEnd(st, i)
    IN  IF e >= i /\ e + 1 <= Len(st) /\ CharAt(st, e + 1) = u
        THEN [g |-> SubSeq(st, i, e), next |-> e + 2]
        ELSE [g |-> "", next |-> i]

\* DURATION_RE.fullmatch(st): the three groups in order, then the end of
\* the string. matched is FALSE for Python's None.
DURATION_RE(st) ==
    LET h  == Group(st, 1, "h")
        mm == Group(st, h.next, "m")
        ss == Group(st, mm.next, "s")
    IN  [matched |-> ss.next = Len(st) + 1, h |-> h.g, mm |-> mm.g, ss |-> ss.g]

\* Mutant of Part: tests the captured text, not its value, against zero.
PartTextZero(g, u) ==
    IF g # "" /\ g # "0" THEN IntToStr(int(g)) \o u ELSE ""

\* Mutant of Part: prints the captured text as it stands.
PartRaw(g, u) ==
    IF g # "" /\ int(g) # 0 THEN g \o u ELSE ""

\* if g and int(g) != 0: parts.append(f"{int(g)}u")
Part(g, u) ==
    IF g # "" /\ int(g) # 0 THEN IntToStr(int(g)) \o u ELSE ""

normalize_duration(str0) ==
    LET m == DURATION_RE(str0)
    IN  IF ~m.matched THEN str0
        ELSE LET parts == Part(m.h, "h") \o Part(m.mm, "m") \o Part(m.ss, "s")
             IN  IF parts = "" THEN "0s" ELSE parts

(***************************************************************************)
(* Parsed values.                                                          *)
(***************************************************************************)
StrV(x)    == [t |-> "str",   s |-> x,  n |-> 0, m |-> <<>>, l |-> <<>>]
IntV(k)    == [t |-> "int",   s |-> "", n |-> k, m |-> <<>>, l |-> <<>>]
FloatV(x)  == [t |-> "float", s |-> x,  n |-> 0, m |-> <<>>, l |-> <<>>]
BoolV(x)   == [t |-> "bool",  s |-> x,  n |-> 0, m |-> <<>>, l |-> <<>>]
Null      == [t |-> "null",  s |-> "", n |-> 0, m |-> <<>>, l |-> <<>>]
MapV(f)    == [t |-> "map",   s |-> "", n |-> 0, m |-> f,    l |-> <<>>]
ListV(q)   == [t |-> "list",  s |-> "", n |-> 0, m |-> <<>>, l |-> q]

EmptyMap == MapV(<<>>)

isinstance_dict(v) == v.t = "map"
isinstance_list(v) == v.t = "list"
isinstance_str(v)  == v.t = "str"

\* v == "..." for a string literal, v == {} and v == None as Python compares.
EqStr(v, x) == v.t = "str" /\ v.s = x
EqEmptyDict(v) == v.t = "map" /\ DOMAIN v.m = {}
EqNone(v) == v.t = "null"

\* The mapping f with key k set to v (added, or overwritten).
SetKey(f, k, v) == [x \in (DOMAIN f) \cup {k} |-> IF x = k THEN v ELSE f[x]]

\* del f[k]
DelKey(f, k) == [x \in (DOMAIN f) \ {k} |-> f[x]]

RECURSIVE SumOver(_, _)
SumOver(S, cnt) ==
    IF S = {} THEN 0
    ELSE LET x == CHOOSE y \in S : TRUE
         IN  cnt[x] + SumOver(S \ {x}, cnt)

(***************************************************************************)
(* json.loads, as the json module's scanner reads a string.  Escapes \b    *)
(* and \uXXXX have no TLA+ string to stand for their result and are not    *)
(* among the strings drawn.                                                *)
(***************************************************************************)
JsonFail == [ok |-> FALSE, v |-> Null, i |-> 0]
JsonOk(v, i) == [ok |-> TRUE, v |-> v, i |-> i]

JsonWhitespace == {" ", "\t", "\n", "\r"}

\* WHITESPACE.match(st, i).end()
RECURSIVE SkipWs(_, _)
SkipWs(st, i) ==
    IF CharAt(st, i) \in JsonWhitespace THEN SkipWs(st, i + 1) ELSE i

StartsWith(st, i, lit) ==
    /\ i + Len(lit) - 1 <= Len(st)
    /\ SubSeq(st, i, i + Len(lit) - 1) = lit

\* py_scanstring (strict), from the character after the opening quote.
RECURSIVE scanstring(_, _, _)
scanstring(st, i, acc) ==
    LET c == CharAt(st, i)
        e == CharAt(st, i + 1)
    IN  IF c = "" THEN JsonFail
        ELSE IF c = "\"" THEN JsonOk(StrV(acc), i + 1)
        ELSE IF c \in {"\t", "\n", "\r", "\f"} THEN JsonFail
        ELSE IF c = "\\" THEN
            IF e \in {"\"", "\\", "/"} THEN scanstring(st, i + 2, acc \o e)
            ELSE IF e = "n" THEN scanstring(st, i + 2, acc \o "\n")
            ELSE IF e = "t" THEN scanstring(st, i + 2, acc \o "\t")
            ELSE IF e = "r" THEN scanstring(st, i + 2, acc \o "\r")
            ELSE IF e = "f" THEN scanstring(st, i + 2, acc \o "\f")
            ELSE JsonFail
        ELSE scanstring(st, i + 1, acc \o c)

\* NUMBER_RE.match(st, i): (-?(?:0|[1-9]\d*))(\.\d+)?([eE][-+]?\d+)?
NUMBER_RE(st, i) ==
    LET j      == IF CharAt(st, i) = "-" THEN i + 1 ELSE i
        intEnd == IF CharAt(st, j) = "0" THEN j ELSE DigitsEnd(st, j)
        fEnd   == DigitsEnd(st, intEnd + 2)
        fracEnd == IF CharAt(st, intEnd + 1) = "." /\ fEnd >= intEnd + 2
                   THEN fEnd ELSE intEnd
        k      == IF CharAt(st, fracEnd + 2) \in {"+", "-"}
                  THEN fracEnd + 3 ELSE fracEnd + 2
        eEnd   == DigitsEnd(st, k)
        expEnd == IF CharAt(st, fracEnd + 1) \in {"e", "E"} /\ eEnd >= k
                  THEN eEnd ELSE fracEnd
    IN  IF intEnd < j THEN JsonFail
        ELSE IF expEnd > intEnd
             THEN JsonOk(FloatV(SubSeq(st, i, expEnd)), expEnd + 1)
        ELSE JsonOk(IntV((IF j > i THEN -1 ELSE 1) * int(SubSeq(st, j, intEnd))),
                    intEnd + 1)

RECURSIVE scan_once(_, _), JSONObject(_, _, _), JSONArray(_, _, _)

\* JSONObject's loop, at the opening quote of a key; acc holds the pairs read.
JSONObject(st, i, acc) ==
    IF CharAt(st, i) # "\"" THEN JsonFail
    ELSE LET key == scanstring(st, i + 1, "")
             c   == SkipWs(st, key.i)
             val == scan_once(st, SkipWs(st, c + 1))
             e   == SkipWs(st, val.i)
         IN  IF ~key.ok THEN JsonFail
             ELSE IF CharAt(st, c) # ":" THEN JsonFail
             ELSE IF ~val.ok THEN JsonFail
             ELSE IF CharAt(st, e) = "}"
                  THEN JsonOk(MapV(SetKey(acc, key.v.s, val.v)), e + 1)
             ELSE IF CharAt(st, e) = ","
                  THEN JSONObject(st, SkipWs(st, e + 1), SetKey(acc, key.v.s, val.v))
             ELSE JsonFail

\* JSONArray's loop, at the start of an item; acc holds the items read.
JSONArray(st, i, acc) ==
    LET val == scan_once(st, i)
        e   == SkipWs(st, val.i)
    IN  IF ~val.ok THEN JsonFail
        ELSE IF CharAt(st, e) = "]" THEN JsonOk(ListV(Append(acc, val.v)), e + 1)
        ELSE IF CharAt(st, e) = ","
             THEN JSONArray(st, SkipWs(st, e + 1), Append(acc, val.v))
        ELSE JsonFail

scan_once(st, i) ==
    LET c == CharAt(st, i)
        w == SkipWs(st, i + 1)
    IN  IF c = "\"" THEN scanstring(st, i + 1, "")
        ELSE IF c = "{" THEN
            IF CharAt(st, w) = "}" THEN JsonOk(EmptyMap, w + 1)
            ELSE JSONObject(st, w, <<>>)
        ELSE IF c = "[" THEN
            IF CharAt(st, w) = "]" THEN JsonOk(ListV(<<>>), w + 1)
            ELSE JSONArray(st, w, <<>>)
        ELSE IF StartsWith(st, i, "null")  THEN JsonOk(Null, i + 4)
        ELSE IF StartsWith(st, i, "true")  THEN JsonOk(BoolV("true"), i + 4)
        ELSE IF StartsWith(st, i, "false") THEN JsonOk(BoolV("false"), i + 5)
        ELSE IF NUMBER_RE(st, i).ok THEN NUMBER_RE(st, i)
        ELSE IF StartsWith(st, i, "NaN") THEN JsonOk(FloatV("NaN"), i + 3)
        ELSE IF StartsWith(st, i, "Infinity") THEN JsonOk(FloatV("Infinity"), i + 8)
        ELSE IF StartsWith(st, i, "-Infinity") THEN JsonOk(FloatV("-Infinity"), i + 9)
        ELSE JsonFail

\* json.loads(st): ok is FALSE where json.loads raises JSONDecodeError.
json_loads(st) ==
    LET r == scan_once(st, SkipWs(st, 1))
    IN  IF r.ok /\ SkipWs(st, r.i) = Len(st) + 1 THEN r ELSE JsonFail

(***************************************************************************)
(* delete_recursive.                                                       *)
(***************************************************************************)
\* st.split(sep) for a one-character sep: the pieces between the separators,
\* from position i on, the current piece having started at position from.
RECURSIVE SplitFrom(_, _, _, _)
SplitFrom(st, sep, from, i) ==
    IF i > Len(st) THEN <<SubSeq(st, from, Len(st))>>
    ELSE IF CharAt(st, i) = sep
         THEN <<SubSeq(st, from, i - 1)>> \o SplitFrom(st, sep, i + 1, i + 1)
    ELSE SplitFrom(st, sep, from, i + 1)

split(st, sep) == SplitFrom(st, sep, 1, 1)

\* _remove(o, parts): the object as the call leaves it (Python mutates it in
\* place) and the count it returns.
RECURSIVE _remove(_, _)
_remove(o, parts) ==
    IF parts = <<>> THEN [o |-> o, removed |-> 0]
    ELSE
    LET head == Head(parts)
        tail == Tail(parts)
    IN  IF isinstance_dict(o) THEN
            IF head \in DOMAIN o.m /\ tail = <<>>
            THEN \* del o[head]; return 1
                 [o |-> MapV(DelKey(o.m, head)), removed |-> 1]
            ELSE
            LET \* removed += _remove(o[head], tail)
                below == IF head \in DOMAIN o.m
                         THEN _remove(o.m[head], tail)
                         ELSE [o |-> Null, removed |-> 0]
                o1    == IF head \in DOMAIN o.m
                         THEN MapV(SetKey(o.m, head, below.o))
                         ELSE o
                \* for v in list(o.values()): removed += _remove(v, parts)
                rest  == [k \in DOMAIN o1.m |-> _remove(o1.m[k], parts)]
            IN  [o |-> MapV([k \in DOMAIN o1.m |-> rest[k].o]),
                 removed |-> below.removed
                             + SumOver(DOMAIN o1.m, [k \in DOMAIN o1.m |-> rest[k].removed])]
        ELSE IF isinstance_list(o) THEN
            \* for item in o: removed += _remove(item, parts)
            LET items == [j \in DOMAIN o.l |-> _remove(o.l[j], parts)]
            IN  [o |-> ListV([j \in DOMAIN o.l |-> items[j].o]),
                 removed |-> SumOver(DOMAIN o.l, [j \in DOMAIN o.l |-> items[j].removed])]
        ELSE [o |-> o, removed |-> 0]

delete_recursive(o, p) == _remove(o, split(p, ","))

(***************************************************************************)
(* walk.                                                                   *)
(***************************************************************************)
\* The paths walk deletes, in the order of its six calls.
DeletedPaths ==
    << "metadata,creationTimestamp",
       "metadata,generation",
       "metadata,labels,paas.redhat.com/appcode",
       "metadata,namespace",
       "metadata,resourceVersion",
       "metadata,uid" >>

\* The six delete_recursive calls at the head of walk's dict branch, from
\* the i-th on.
RECURSIVE DeleteFrom(_, _)
DeleteFrom(o, i) ==
    IF i > Len(DeletedPaths) THEN o
    ELSE DeleteFrom(delete_recursive(o, DeletedPaths[i]).o, i + 1)

DeleteFixed(o) == DeleteFrom(o, 1)

\* Mutant of Dropped: the kind key is dropped whatever its value.
DroppedAnyKind(k, v) ==
    \/ k = "kind"
    \/ k = "type" /\ EqStr(v, "string")
    \/ k = "metadata" /\ EqEmptyDict(v)
    \/ k = "computeResources" /\ EqEmptyDict(v)
    \/ k = "spec" /\ EqNone(v)
    \/ k = "name" /\ EqStr(v, "")

\* The branches of walk's elif chain that end in pass. The two branches that
\* come before or between them (timeout, apiVersion) test other keys.
Dropped(k, v) ==
    \/ k = "kind" /\ EqStr(v, "Task")
    \/ k = "type" /\ EqStr(v, "string")
    \/ k = "metadata" /\ EqEmptyDict(v)
    \/ k = "computeResources" /\ EqEmptyDict(v)
    \/ k = "spec" /\ EqNone(v)
    \/ k = "name" /\ EqStr(v, "")

\* Mutant of value_rule: a string that is not JSON is replaced by null.
value_rule_null(v) ==
    LET jv == json_loads(v.s)
    IN  IF jv.ok THEN jv.v ELSE Null

\* try: new[k] = json.loads(v)  except Exception: new[k] = v
value_rule(v) ==
    LET jv == json_loads(v.s)
    IN  IF jv.ok THEN jv.v ELSE v

RECURSIVE walk(_)
walk(o) ==
    IF isinstance_dict(o) THEN
        LET d == DeleteFixed(o)
            kept == {k \in DOMAIN d.m : ~Dropped(k, d.m[k])}
        IN  MapV([k \in kept |->
                LET v == d.m[k]
                IN  IF k = "timeout" /\ isinstance_str(v)
                         THEN StrV(normalize_duration(v.s))
                    ELSE IF k = "apiVersion" /\ EqStr(v, "tekton.dev/v1")
                         THEN StrV("tekton.dev/v1beta1")
                    ELSE IF k = "value" /\ isinstance_str(v)
                         THEN value_rule(v)
                    ELSE walk(v)])
    ELSE IF isinstance_list(o) THEN ListV([j \in DOMAIN o.l |-> walk(o.l[j])])
    ELSE o

\* yaml.safe_load_all and yaml.safe_dump_all are the YAML library's: a stream
\* is held as the sequence of documents it parses to, and dumping a sequence
\* of documents gives the stream that parses back to it.
process_stream(stream) == [j \in DOMAIN stream |-> walk(stream[j])]

(***************************************************************************)
(* The inputs drawn.                                                       *)
(***************************************************************************)
DurChars == {"0", "1", "h", "m", "s"}

\* Every string of at most n characters of DurChars.
RECURSIVE Strings(_)
Strings(n) ==
    IF n = 0 THEN {""}
    ELSE LET shorter == Strings(n - 1)
         IN  shorter \cup {x \o c : x \in shorter, c \in DurChars}

\* Documents by number of nodes. E is the set of <<key, value>> entries a
\* mapping may hold as they stand, CK the keys that may hold a mapping or a
\* sequence with children of its own, S the scalars a sequence may hold.
\* tab[j] holds the mappings, the sequences and all the documents of j nodes.
LevelOne(S) ==
    [maps |-> {EmptyMap}, lists |-> {ListV(<<>>)},
     docs |-> S \cup {EmptyMap, ListV(<<>>)}]

Children(j, tab, E, CK) ==
    IF j = 1 THEN E \cup (CK \X {EmptyMap, ListV(<<>>)})
    ELSE CK \X (tab[j].maps \cup tab[j].lists)

Level(n, tab, E, CK) ==
    LET maps  == UNION { { MapV(SetKey(x[1].m, x[2][1], x[2][2])) :
                             x \in { y \in tab[n - j].maps \X Children(j, tab, E, CK) :
                                       y[2][1] \notin DOMAIN y[1].m } } :
                         j \in 1..(n - 1) }
        lists == UNION { { ListV(Append(x[1].l, x[2])) :
                             x \in tab[n - j].lists \X tab[j].docs } :
                         j \in 1..(n - 1) }
    IN  [maps |-> maps, lists |-> lists, docs |-> maps \cup lists]

RECURSIVE Levels(_, _, _, _)
Levels(n, E, CK, S) ==
    IF n = 1 THEN <<LevelOne(S)>>
    ELSE LET tab == Levels(n - 1, E, CK, S)
         IN  Append(tab, Level(n, tab, E, CK))

Docs(n, E, CK, S) ==
    LET tab == Levels(n, E, CK, S)
    IN  UNION { tab[j].docs : j \in 1..n }

\* delete_recursive's inputs.
DelKeys == {"metadata", "uid", "x"}
DelDocs == Docs(MaxDelNodes, DelKeys \X {IntV(1)}, DelKeys, {IntV(1)})
DelPaths == {"uid", "metadata,uid", "metadata,x,uid"}

\* walk's inputs: for each rule a pair that matches it, pairs that share the
\* key or the value with a rule without matching it, and the deleted keys.
WalkEntries ==
    { <<"kind", StrV("Task")>>, <<"kind", StrV("Pipeline")>>,
      <<"type", StrV("string")>>,
      <<"name", StrV("")>>, <<"name", StrV("Task")>>,
      <<"spec", Null>>,
      <<"computeResources", EmptyMap>>,
      <<"timeout", StrV("1h0m0s")>>,
      <<"apiVersion", StrV("tekton.dev/v1")>>,
      <<"value", StrV("42")>>,
      <<"value", StrV("not json")>>,
      <<"value", StrV("{\"kind\":\"Task\",\"metadata\":{\"uid\":1}}")>>,
      <<"creationTimestamp", StrV("t")>>,
      <<"generation", IntV(1)>>,
      <<"paas.redhat.com/appcode", StrV("a")>>,
      <<"namespace", StrV("ns")>>,
      <<"resourceVersion", StrV("1")>>,
      <<"uid", StrV("u")>>,
      <<"x", IntV(1)>> }
WalkContainerKeys == {"metadata", "labels", "value", "x"}
WalkScalars == {StrV("Task"), IntV(1), Null}
\* The entries and keys of the deeper documents: the paths of two and of
\* three parts, a dropped key, a JSON string and a key no rule names.
DeepEntries ==
    { <<"kind", StrV("Task")>>,
      <<"value", StrV("{\"kind\":\"Task\",\"metadata\":{\"uid\":1}}")>>,
      <<"paas.redhat.com/appcode", StrV("a")>>,
      <<"uid", StrV("u")>>,
      <<"x", IntV(1)>> }
DeepContainerKeys == {"metadata", "labels"}
\* Every document of fewer than MaxNodes nodes over all the entries, and
\* every document of at most MaxNodes nodes over the few.
WalkDocs ==
    Docs(MaxNodes - 1, WalkEntries, WalkContainerKeys, WalkScalars)
      \cup Docs(MaxNodes, DeepEntries, DeepContainerKeys, {IntV(1)})

(***************************************************************************)
(* The variables a specification does not use stay as they are here.       *)
(***************************************************************************)
IdleDur  == s = "" /\ r1 = "" /\ r2 = ""
IdleDel  == obj = Null /\ path = "" /\ obj0 = Null /\ removed = 0
IdleWalk == doc = Null /\ out = Null /\ out2 = Null
IdleMain ==
    /\ args = <<>> /\ inplace = FALSE /\ fs = <<>> /\ fs0 = <<>> /\ idx = 0
    /\ text = [kind |-> "missing", docs |-> <<>>] /\ outText = <<>>
    /\ stdout = <<>> /\ stderr = <<>> /\ status = 0

(***************************************************************************)
(* normalize_duration applied to a string, and to its own result.          *)
(***************************************************************************)
InitDur ==
    /\ pc = "dur"
    /\ s \in Strings(MaxLen)
    /\ r1 = "" /\ r2 = ""
    /\ IdleDel /\ IdleWalk /\ IdleMain

Normalize ==
    /\ pc = "dur"
    /\ r1' = normalize_duration(s)
    /\ pc' = "normalized"
    /\ UNCHANGED <<s, r2, delVars, walkVars, mainVars>>

NormalizeAgain ==
    /\ pc = "normalized"
    /\ r2' = normalize_duration(r1)
    /\ pc' = "renormalized"
    /\ UNCHANGED <<s, r1, delVars, walkVars, mainVars>>

NextDur == Normalize \/ NormalizeAgain

SpecDur == InitDur /\ [][NextDur]_vars

(***************************************************************************)
(* delete_recursive applied to an object and a path.                       *)
(***************************************************************************)
InitDel ==
    /\ pc = "del"
    /\ obj \in DelDocs
    /\ obj0 = obj
    /\ path \in DelPaths
    /\ removed = 0
    /\ IdleDur /\ IdleWalk /\ IdleMain

Delete ==
    /\ pc = "del"
    /\ LET r == delete_recursive(obj, path)
       IN  obj' = r.o /\ removed' = r.removed
    /\ pc' = "deleted"
    /\ UNCHANGED <<path, obj0, durVars, walkVars, mainVars>>

NextDel == Delete

SpecDel == InitDel /\ [][NextDel]_vars

(***************************************************************************)
(* walk applied to a document, and to its own result.                      *)
(***************************************************************************)
InitWalk ==
    /\ pc = "walk"
    /\ doc \in WalkDocs
    /\ out = Null /\ out2 = Null
    /\ IdleDur /\ IdleDel /\ IdleMain

Walk ==
    /\ pc = "walk"
    /\ out' = walk(doc)
    /\ pc' = "walked"
    /\ UNCHANGED <<doc, out2, durVars, delVars, mainVars>>

WalkAgain ==
    /\ pc = "walked"
    /\ out2' = walk(out)
    /\ pc' = "rewalked"
    /\ UNCHANGED <<doc, out, durVars, delVars, mainVars>>

NextWalk == Walk \/ WalkAgain

SpecWalk == InitWalk /\ [][NextWalk]_vars

(***************************************************************************)
(* main.  A file is held as what it parses to: a complete text is the      *)
(* stream of documents it holds, a file whose text is not YAML is          *)
(* "invalid", and a file that write_text has opened and not finished       *)
(* writing is "partial".                                                   *)
(***************************************************************************)
Missing    == [kind |-> "missing", docs |-> <<>>]
Partial    == [kind |-> "partial", docs |-> <<>>]
Invalid    == [kind |-> "invalid", docs |-> <<>>]
File(docs) == [kind |-> "file", docs |-> docs]

\* Mutant of with_suffix_tmp: the output is written to the path itself.
with_suffix_none(p) == p

\* path.with_suffix(path.suffix + ".normalize_tmp")
with_suffix_tmp(p) == p \o ".normalize_tmp"

\* The paths the command line may name, standard input, and every name of
\* the file system the run can touch.
ArgPaths == {"a.yaml", "a.yaml.normalize_tmp", "b.yaml"}
Stdin == "<stdin>"
Names == ArgPaths \cup {with_suffix_tmp(p) : p \in ArgPaths} \cup {Stdin}

\* What each name holds when it exists as the run starts.
OrigText(name) ==
    IF name = "a.yaml"
        THEN <<MapV(("timeout" :> StrV("1h0m0s")) @@ ("kind" :> StrV("Task")))>>
    ELSE IF name = "a.yaml.normalize_tmp"
        THEN <<MapV("metadata" :> MapV("uid" :> StrV("u")))>>
    ELSE IF name = "b.yaml"
        THEN <<MapV("apiVersion" :> StrV("tekton.dev/v1")),
               MapV("value" :> StrV("42"))>>
    ELSE IF name = Stdin
        THEN <<MapV("name" :> StrV(""))>>
    ELSE <<StrV("left over")>>

InitialContents(name) ==
    IF name = Stdin THEN {File(OrigText(name)), Invalid}
    ELSE IF name = "b.yaml" THEN {Missing, File(OrigText(name)), Invalid}
    ELSE {Missing, File(OrigText(name))}

\* Every sequence of at most n paths.
RECURSIVE ArgLists(_)
ArgLists(n) ==
    IF n = 0 THEN {<<>>}
    ELSE LET shorter == ArgLists(n - 1)
         IN  shorter \cup {Append(q, p) : q \in shorter, p \in ArgPaths}

InitMain ==
    /\ pc = "for"
    /\ args \in ArgLists(MaxArgs)
    /\ inplace \in BOOLEAN
    /\ fs \in {f \in [Names -> UNION {InitialContents(n) : n \in Names}] :
                 \A n \in Names : f[n] \in InitialContents(n)}
    /\ fs0 = fs
    /\ idx = 1
    /\ text = Missing /\ outText = <<>>
    /\ stdout = <<>> /\ stderr = <<>> /\ status = 0
    /\ IdleDur /\ IdleDel /\ IdleWalk

Running == pc \notin {"done", "raised", "crashed"}

OutputWritten(stream) == [what |-> "output", docs |-> stream, path |-> ""]
NormalizedMessage(p)  == [what |-> "normalized", docs |-> <<>>, path |-> p]
SkippingMessage(p)    == "skipping missing file: " \o p

\* if not args.paths: out = process_stream(sys.stdin); sys.stdout.write(out)
\* A stream that is not YAML makes yaml.safe_load_all raise.
ReadStdin ==
    /\ pc = "for" /\ args = <<>>
    /\ IF fs[Stdin].kind = "file"
       THEN /\ stdout' = Append(stdout, OutputWritten(process_stream(fs[Stdin].docs)))
            /\ pc' = "done"
            /\ UNCHANGED status
       ELSE /\ pc' = "raised"
            /\ status' = 1
            /\ UNCHANGED stdout
    /\ UNCHANGED <<args, inplace, fs, fs0, idx, text, outText, stderr,
                   durVars, delVars, walkVars>>

\* Mutant of SkipMissing: a missing path ends the run with an error.
SkipMissingRaises ==
    /\ pc = "for" /\ args # <<>> /\ idx <= Len(args)
    /\ fs[args[idx]].kind = "missing"
    /\ pc' = "raised"
    /\ status' = 1
    /\ UNCHANGED <<args, inplace, fs, fs0, idx, text, outText, stdout, stderr,
                   durVars, delVars, walkVars>>

\* if not path.exists(): print(..., file=sys.stderr); continue
SkipMissing ==
    /\ pc = "for" /\ args # <<>> /\ idx <= Len(args)
    /\ fs[args[idx]].kind = "missing"
    /\ stderr' = Append(stderr, SkippingMessage(args[idx]))
    /\ idx' = idx + 1
    /\ UNCHANGED <<pc, args, inplace, fs, fs0, text, outText, stdout, status,
                   durVars, delVars, walkVars>>

\* text = path.read_text()
ReadText ==
    /\ pc = "for" /\ args # <<>> /\ idx <= Len(args)
    /\ fs[args[idx]].kind # "missing"
    /\ text' = fs[args[idx]]
    /\ pc' = "process"
    /\ UNCHANGED <<args, inplace, fs, fs0, idx, outText, stdout, stderr, status,
                   durVars, delVars, walkVars>>

\* out = process_stream(text): a text that is not YAML makes it raise.
ProcessStream ==
    /\ pc = "process"
    /\ IF text.kind = "file"
       THEN /\ outText' = process_stream(text.docs)
            /\ pc' = IF inplace THEN "open" ELSE "stdout"
            /\ UNCHANGED status
       ELSE /\ pc' = "raised"
            /\ status' = 1
            /\ UNCHANGED outText
    /\ UNCHANGED <<args, inplace, fs, fs0, idx, text, stdout, stderr,
                   durVars, delVars, walkVars>>

\* else: sys.stdout.write(out)
WriteStdout ==
    /\ pc = "stdout"
    /\ stdout' = Append(stdout, OutputWritten(outText))
    /\ idx' = idx + 1
    /\ pc' = "for"
    /\ UNCHANGED <<args, inplace, fs, fs0, text, outText, stderr, status,
                   durVars, delVars, walkVars>>

\* tmp.write_text(out), first half: open(tmp, "w") creates or truncates tmp.
OpenTmp ==
    /\ pc = "open"
    /\ fs' = [fs EXCEPT ![with_suffix_tmp(args[idx])] = Partial]
    /\ pc' = "write"
    /\ UNCHANGED <<args, inplace, fs0, idx, text, outText, stdout, stderr, status,
                   durVars, delVars, walkVars>>

\* tmp.write_text(out), second half: the text is written and the file closed.
WriteTmp ==
    /\ pc = "write"
    /\ fs' = [fs EXCEPT ![with_suffix_tmp(args[idx])] = File(outText)]
    /\ pc' = "replace"
    /\ UNCHANGED <<args, inplace, fs0, idx, text, outText, stdout, stderr, status,
                   durVars, delVars, walkVars>>

\* tmp.replace(path): an atomic rename.
Replace ==
    /\ pc = "replace"
    /\ fs' = [fs EXCEPT ![args[idx]] = fs[with_suffix_tmp(args[idx])],
                        ![with_suffix_tmp(args[idx])] = Missing]
    /\ pc' = "print"
    /\ UNCHANGED <<args, inplace, fs0, idx, text, outText, stdout, stderr, status,
                   durVars, delVars, walkVars>>

\* print(f"normalized {path}")
PrintNormalized ==
    /\ pc = "print"
    /\ stdout' = Append(stdout, NormalizedMessage(args[idx]))
    /\ idx' = idx + 1
    /\ pc' = "for"
    /\ UNCHANGED <<args, inplace, fs, fs0, text, outText, stderr, status,
                   durVars, delVars, walkVars>>

\* open, write or rename raises OSError: nothing catches it, the traceback
\* is printed and the process exits with status 1. The file system stays as
\* the failed call left it.
WriteFails ==
    /\ pc \in {"open", "write", "replace"}
    /\ pc' = "raised"
    /\ status' = 1
    /\ UNCHANGED <<args, inplace, fs, fs0, idx, text, outText, stdout, stderr,
                   durVars, delVars, walkVars>>

\* The for loop is over: main returns.
Return ==
    /\ pc = "for" /\ args # <<>> /\ idx > Len(args)
    /\ pc' = "done"
    /\ UNCHANGED <<args, inplace, fs, fs0, idx, text, outText, stdout, stderr,
                   status, durVars, delVars, walkVars>>

\* The process is killed, or the machine stops, between two steps.
Crash ==
    /\ Running
    /\ pc' = "crashed"
    /\ UNCHANGED <<args, inplace, fs, fs0, idx, text, outText, stdout, stderr,
                   status, durVars, delVars, walkVars>>

NextMain ==
    \/ ReadStdin \/ SkipMissing \/ ReadText \/ ProcessStream \/ WriteStdout
    \/ OpenTmp \/ WriteTmp \/ Replace \/ PrintNormalized \/ WriteFails
    \/ Return \/ Crash

SpecMain == InitMain /\ [][NextMain]_vars

(***************************************************************************)
(* Claims about normalize_duration.                                        *)
(***************************************************************************)
\* st is empty, or one or more digits followed by the unit letter u.
IsComponent(st, u) ==
    \/ st = ""
    \/ /\ Len(st) >= 2
       /\ CharAt(st, Len(st)) = u
       /\ \A i \in 1..(Len(st) - 1) : IsDigit(CharAt(st, i))

\* st without its leading zeros.
RECURSIVE StripZeros(_)
StripZeros(st) ==
    IF CharAt(st, 1) = "0" THEN StripZeros(SubSeq(st, 2, Len(st))) ELSE st

\* What a component contributes: nothing when it is absent or its digits
\* are all zeros, and otherwise its digits without leading zeros and its unit.
Emitted(st) ==
    LET digits == StripZeros(SubSeq(st, 1, Len(st) - 1))
    IN  IF st = "" \/ digits = "" THEN "" ELSE digits \o CharAt(st, Len(st))

\* The ways to cut st into an h, an m and an s component.
Cuts(st) ==
    { c \in (0..Len(st)) \X (0..Len(st)) :
        /\ c[1] <= c[2]
        /\ IsComponent(SubSeq(st, 1, c[1]), "h")
        /\ IsComponent(SubSeq(st, c[1] + 1, c[2]), "m")
        /\ IsComponent(SubSeq(st, c[2] + 1, Len(st)), "s") }

ExpectedDuration(st) ==
    IF Cuts(st) = {} THEN st
    ELSE LET c == CHOOSE x \in Cuts(st) : TRUE
             e == Emitted(SubSeq(st, 1, c[1]))
                    \o Emitted(SubSeq(st, c[1] + 1, c[2]))
                    \o Emitted(SubSeq(st, c[2] + 1, Len(st)))
         IN  IF e = "" THEN "0s" ELSE e

\* C5: normalize_duration returns a string that is not an h, m, s duration
\* unchanged, and for a duration the non-zero components in the order h, m,
\* s, each without leading zeros, or "0s" when none is non-zero.
C5_DurationResult ==
    pc \in {"normalized", "renormalized"} =>
        /\ Cardinality(Cuts(s)) <= 1
        /\ r1 = ExpectedDuration(s)

\* A duration with a zero component between two kept components.
C5_Witness == pc = "normalized" /\ s = "1h0m1s" /\ r1 = "1h1s"

\* C6: normalize_duration applied to its own result returns that result.
C6_DurationIdempotent == pc = "renormalized" => r2 = r1

\* The second application has run on a string the first one changed.
C6_Witness == pc = "renormalized" /\ s = "00h1m" /\ r1 = "1m" /\ r2 = "1m"

(***************************************************************************)
(* Claims about delete_recursive.                                          *)
(***************************************************************************)
\* The items of a mapping or sequence, as a set.
ChildrenOf(o) ==
    IF o.t = "map" THEN {o.m[k] : k \in DOMAIN o.m}
    ELSE IF o.t = "list" THEN {o.l[j] : j \in DOMAIN o.l}
    ELSE {}

\* parts are successive mapping keys from the mapping o.
RECURSIVE MatchesAt(_, _)
MatchesAt(o, parts) ==
    /\ o.t = "map"
    /\ Head(parts) \in DOMAIN o.m
    /\ Tail(parts) = <<>> \/ MatchesAt(o.m[Head(parts)], Tail(parts))

\* The path occurs in o: from some mapping node, at any depth.
RECURSIVE Occurs(_, _)
Occurs(o, parts) ==
    \/ MatchesAt(o, parts)
    \/ \E c \in ChildrenOf(o) : Occurs(c, parts)

\* The number of keys that the mappings of after, taken in step with before,
\* no longer have.
RECURSIVE RemovedKeys(_, _)
RemovedKeys(before, after) ==
    IF before.t = "map" /\ after.t = "map" THEN
        LET common == DOMAIN before.m \cap DOMAIN after.m
        IN  Cardinality(DOMAIN before.m \ DOMAIN after.m)
              + SumOver(common, [k \in common |-> RemovedKeys(before.m[k], after.m[k])])
    ELSE IF before.t = "list" /\ after.t = "list" /\ Len(before.l) = Len(after.l) THEN
        SumOver(DOMAIN before.l,
                [j \in DOMAIN before.l |-> RemovedKeys(before.l[j], after.l[j])])
    ELSE 0

\* C3: after delete_recursive no occurrence of the path is left in the
\* object, and the count returned is the number of keys removed.
C3_DeletesEveryOccurrence ==
    pc = "deleted" =>
        /\ ~Occurs(obj, split(path, ","))
        /\ removed = RemovedKeys(obj0, obj)

\* C4: when the path does not occur in the object, delete_recursive returns
\* 0 and leaves the object as it was.
C4_AbsentPathNoOp ==
    (pc = "deleted" /\ ~Occurs(obj0, split(path, ","))) =>
        (obj = obj0 /\ removed = 0)

(***************************************************************************)
(* Claims about walk.                                                      *)
(***************************************************************************)
\* C1: walk applied to its own result returns that result.
C1_WalkIdempotent == pc = "rewalked" => out2 = out

\* The paths the claim names.
ClaimedPaths ==
    { <<"metadata", "uid">>, <<"metadata", "creationTimestamp">>,
      <<"metadata", "generation">>, <<"metadata", "namespace">>,
      <<"metadata", "resourceVersion">>,
      <<"metadata", "labels", "paas.redhat.com/appcode">> }

\* C2: after one pass no mapping under a key metadata has one of the deleted
\* keys, at any depth of the output.
C2_NoDeletedKeyRemains ==
    pc \in {"walked", "rewalked"} => \A p \in ClaimedPaths : ~Occurs(out, p)

\* The value of a string under the key value, as the claim gives it.
ExpectedValue(v) == IF json_loads(v.s).ok THEN json_loads(v.s).v ELSE v

\* In step through the document after the deletions (d) and the output (o):
\* every string under a key value is replaced as the claim says.
RECURSIVE ValuesParsed(_, _)
ValuesParsed(d, o) ==
    IF d.t = "map" THEN
        /\ o.t = "map"
        /\ \A k \in DOMAIN d.m :
              (k = "value" /\ d.m[k].t = "str") =>
                  (k \in DOMAIN o.m /\ o.m[k] = ExpectedValue(d.m[k]))
        /\ \A k \in DOMAIN d.m \cap DOMAIN o.m :
              ~(k = "value" /\ d.m[k].t = "str") => ValuesParsed(d.m[k], o.m[k])
    ELSE IF d.t = "list" THEN
        /\ o.t = "list"
        /\ Len(o.l) = Len(d.l)
        /\ \A j \in DOMAIN d.l : ValuesParsed(d.l[j], o.l[j])
    ELSE TRUE

\* The document with every string under a key value replaced by st.
RECURSIVE WithValues(_, _)
WithValues(d, st) ==
    IF d.t = "map" THEN
        MapV([k \in DOMAIN d.m |->
                IF k = "value" /\ d.m[k].t = "str" THEN StrV(st)
                ELSE WithValues(d.m[k], st)])
    ELSE IF d.t = "list" THEN ListV([j \in DOMAIN d.l |-> WithValues(d.l[j], st)])
    ELSE d

\* The output o with whatever stands where d has a string under a key value
\* blanked out.
RECURSIVE Masked(_, _)
Masked(d, o) ==
    IF d.t = "map" /\ o.t = "map" THEN
        MapV([k \in DOMAIN o.m |->
                IF k \notin DOMAIN d.m THEN o.m[k]
                ELSE IF k = "value" /\ d.m[k].t = "str" THEN Null
                ELSE Masked(d.m[k], o.m[k])])
    ELSE IF d.t = "list" /\ o.t = "list" /\ Len(d.l) = Len(o.l) THEN
        ListV([j \in DOMAIN o.l |-> Masked(d.l[j], o.l[j])])
    ELSE o

\* C9: a string under a key value is replaced by what it parses to as JSON,
\* or kept when it does not parse; and whether it parses changes nothing
\* else of the output: the same document with strings that do not parse in
\* their place gives the same output everywhere else.
C9_ValueParsedOrKept ==
    pc \in {"walked", "rewalked"} =>
        /\ ValuesParsed(DeleteFixed(doc), out)
        /\ Masked(DeleteFixed(doc), out)
             = Masked(DeleteFixed(doc), walk(WithValues(doc, "{")))

\* A mapping with a string that parses under value, next to another key.
C9_Witness ==
    /\ pc = "walked"
    /\ doc = MapV(("value" :> StrV("42")) @@ ("x" :> IntV(1)))
    /\ out = MapV(("value" :> IntV(42)) @@ ("x" :> IntV(1)))

\* A mapping with a string that does not parse, inside a sequence.
C9_WitnessKept ==
    /\ pc = "walked"
    /\ doc = ListV(<<MapV("value" :> StrV("not json"))>>)
    /\ out = doc

\* The (key, value) pairs the claim says are dropped.
DropRule(k, v) ==
    \/ k = "kind" /\ v = StrV("Task")
    \/ k = "type" /\ v = StrV("string")
    \/ k = "metadata" /\ v = EmptyMap
    \/ k = "computeResources" /\ v = EmptyMap
    \/ k = "spec" /\ v = Null
    \/ k = "name" /\ v = StrV("")

\* In step through the document after the deletions (d) and the output (o):
\* each mapping of the output has the keys of its mapping in d, less the
\* dropped ones.
RECURSIVE KeysExact(_, _)
KeysExact(d, o) ==
    IF d.t = "map" THEN
        /\ o.t = "map"
        /\ DOMAIN o.m = {k \in DOMAIN d.m : ~DropRule(k, d.m[k])}
        /\ \A k \in DOMAIN o.m : KeysExact(d.m[k], o.m[k])
    ELSE IF d.t = "list" THEN
        /\ o.t = "list"
        /\ Len(o.l) = Len(d.l)
        /\ \A j \in DOMAIN d.l : KeysExact(d.l[j], o.l[j])
    ELSE TRUE

\* C10: the keys of every mapping of walk's output are the keys left by the
\* deletion step less those whose (key, value) pair matches a drop rule.
C10_KeysIndependent ==
    pc \in {"walked", "rewalked"} => KeysExact(DeleteFixed(doc), out)

\* A dropped key whose sibling, with the dropped key's value, survives.
C10_Witness ==
    /\ pc = "walked"
    /\ doc = MapV(("kind" :> StrV("Task")) @@ ("name" :> StrV("Task")))
    /\ out = MapV("name" :> StrV("Task"))

(***************************************************************************)
(* Claims about main.                                                      *)
(***************************************************************************)
ArgSet == {args[i] : i \in DOMAIN args}

\* process_stream applied k times to a stream.
RECURSIVE Normalized(_, _)
Normalized(stream, k) ==
    IF k = 0 THEN stream ELSE process_stream(Normalized(stream, k - 1))

\* The file at p holds what it held as the run started, or the whole output
\* of normalizing that (once for each time the path is named).
OriginalOrNormalized(p) ==
    \/ fs[p] = fs0[p]
    \/ /\ fs0[p].kind = "file"
       /\ \E k \in 1..Len(args) : fs[p] = File(Normalized(fs0[p].docs, k))

\* p is where the run writes the temporary file of another input.
IsTmpOfAnInput(p) == \E q \in ArgSet : with_suffix_tmp(q) = p

RECURSIVE Accounted(_, _, _)
Accounted(i, e, o) ==
    IF i > Len(args) THEN e > Len(stderr) /\ o > Len(stdout)
    ELSE \/ /\ e <= Len(stderr)
            /\ stderr[e] = SkippingMessage(args[i])
            /\ Accounted(i + 1, e + 1, o)
         \/ /\ o <= Len(stdout)
            /\ stdout[o] = NormalizedMessage(args[i])
            /\ Accounted(i + 1, e, o + 1)

IsMissing0(p) == fs0[p].kind = "missing"
IsPresent0(p) == fs0[p].kind # "missing"

\* What a finished run has printed. Without --inplace no file changes, so
\* the diagnostics are those of the paths missing from the start and the
\* output is that of the others, both in argument order.
RunAccounted ==
    (pc = "done" /\ args # <<>>) =>
        /\ status = 0
        /\ IF inplace THEN Accounted(1, 1, 1)
           ELSE /\ stderr = [j \in DOMAIN SelectSeq(args, IsMissing0) |->
                               SkippingMessage(SelectSeq(args, IsMissing0)[j])]
                /\ stdout = [j \in DOMAIN SelectSeq(args, IsPresent0) |->
                               OutputWritten(process_stream(
                                   fs0[SelectSeq(args, IsPresent0)[j]].docs))]

\* What main does with the path it is at, unless it is killed there.
PathStep ==
    (pc = "for" /\ args # <<>> /\ idx <= Len(args) /\ pc' # "crashed") =>
        IF fs[args[idx]].kind = "missing"
        THEN /\ stderr' = Append(stderr, SkippingMessage(args[idx]))
             /\ idx' = idx + 1
             /\ pc' = "for"
             /\ UNCHANGED <<fs, stdout, status>>
        ELSE /\ text' = fs[args[idx]]
             /\ pc' = "process"
             /\ UNCHANGED <<fs, idx, stdout, stderr, status>>

====
